---- MODULE Spec2Model ----
(***************************************************************************)
(* Model of src/src/worker.py: the camera pipeline Worker thread, its      *)
(* WorkerManager watchdog thread, the three latest-value frame slots and   *)
(* the external stop() call.                                               *)
(*                                                                         *)
(* Every device-SDK call (OakCamera(), node construction, oak.start,       *)
(* tryGet, oak.poll) and the reconfigure callback is external: it either   *)
(* returns or raises, chosen nondeterministically.                         *)
(***************************************************************************)
EXTENDS Integers, Sequences, FiniteSets, TLC

\* ---------------------------------------------------------------- bounds
\* Longest run of consecutive pipeline-loop failures that is explored.
MaxRun == 5
\* Number of distinct raw frames the device can deliver.
MaxFrame == 2
\* Number of external stop() calls that are explored.
MaxStops == 2
\* Number of reconfigure-callback invocations that are explored.
MaxCalls == 2
\* Watchdog ticks counted since the last pipeline failure.
MaxTicks == 2

\* ------------------------------------------------------ program constants
\* worker.py:102   if failures > 3
FailureThreshold == 3

\* np.array([]) : the value of a slot before any frame was stored
Empty == <<>>
RawFrames == 1..MaxFrame

VARIABLES
    \* WorkerManager fields
    running,            \* manager.running
    needs_reconfigure,  \* manager.needs_reconfigure
    \* Worker fields
    should_get_color,
    should_get_depth,
    color_image,
    depth_map,
    pcd,
    \* local variable of Worker._pipeline_loop
    failures,
    \* control state of the two threads
    pcW,                \* Worker thread
    pcM,                \* WorkerManager thread
    \* device side
    sessions,           \* number of OakCamera sessions currently open
    nodes,              \* pipeline nodes built on the open session
    \* observation (history) variables
    run,                \* consecutive failed _pipeline_loop calls since the
                        \* last session that was opened and started
    drainRun,           \* consecutive _pipeline_loop calls ended by an
                        \* exception raised in the drain loop
    ticksSince,         \* watchdog ticks completed since the last failure
    reconfigCalls,      \* invocations of the reconfigure callback
    stopCalls,          \* calls of Worker.stop()
    lateOpens,          \* sessions opened while manager.running was False
    \* observation variables of the frame-slot specification StoreSpec
    written,            \* per slot, the frames passed to its setter so far
    lastSet,            \* per slot, the argument of its most recent setter
                        \* call (Empty when there was none)
    lastOp,             \* the most recent setter or getter call
    got                 \* the value returned by the most recent getter call

vars == <<running, needs_reconfigure, should_get_color, should_get_depth,
          color_image, depth_map, pcd, failures, pcW, pcM, sessions, nodes,
          run, drainRun, ticksSince, reconfigCalls, stopCalls, lateOpens,
          written, lastSet, lastOp, got>>

config == <<should_get_color, should_get_depth>>
slots == <<color_image, depth_map, pcd>>
manager == <<running, needs_reconfigure>>
store == <<written, lastSet, lastOp, got>>
history == <<run, drainRun, ticksSince, reconfigCalls, stopCalls, lateOpens,
             store>>
SlotNames == {"color", "depth", "pcd"}

\* ------------------------------------------------------- frame conversions
\* cv2.cvtColor(bgr_frame, cv2.COLOR_BGR2RGB) on the frame of a raw packet
ColorFrame(f) == <<"rgb", f>>
\* cv2.resize(depth_frame.getCvFrame(), (width, height))
DepthFrame(f) == <<"depth", f>>
\* packet.points of a PointcloudPacket
PcdPoints(f) == <<"points", f>>

SlotValues == {Empty} \cup {ColorFrame(f) : f \in RawFrames}
                      \cup {DepthFrame(f) : f \in RawFrames}
                      \cup {PcdPoints(f) : f \in RawFrames}

\* ---------------------------------------------------------------- setters
\* The value a slot holds after `self.<slot> = arr`: the assignment rebinds
\* the attribute to the array object in one step.
\* set_current_image copying into the live array element by element, so
\* that the slot holds a mix of old and new pixels while the copy runs
set_current_image_Torn(arr) == <<"torn", arr>>

\* Worker._set_current_image (lines 178-180)
set_current_image(arr) == arr
\* Worker._set_current_depth_map (lines 182-184)
set_current_depth_map(arr) == arr
\* Worker._set_current_pcd (lines 186-188), arr = packet.points
set_current_pcd(arr) == arr

\* ---------------------------------------------------------------- getters
\* get_color_image returning the wrong attribute
get_color_image_Wrong == depth_map

get_color_image == color_image
get_depth_map == depth_map
get_pcd == pcd

\* ------------------------------------------------------------------- Init
\* State after Worker.__init__: the manager thread is started by the
\* constructor, the worker thread waits for start().
Init ==
    /\ running = TRUE
    /\ needs_reconfigure = FALSE
    /\ should_get_color \in BOOLEAN
    /\ should_get_depth \in BOOLEAN
    /\ color_image = Empty
    /\ depth_map = Empty
    /\ pcd = Empty
    /\ failures = 0
    /\ pcW = "init"
    /\ pcM = "check"
    /\ sessions = 0
    /\ nodes = {}
    /\ run = 0
    /\ drainRun = 0
    /\ ticksSince = 0
    /\ reconfigCalls = 0
    /\ stopCalls = 0
    /\ lateOpens = 0
    /\ written = [s \in SlotNames |-> {}]
    /\ lastSet = [s \in SlotNames |-> Empty]
    /\ lastOp = "none"
    /\ got = Empty

\* -------------------------------------------------------- PipelineBuilder
\* Worker._add_camera_rgb_node
add_camera_rgb_node(color) ==
    IF color THEN {"color"} ELSE {}

\* Worker._add_depth_node
add_depth_node(color, depth) ==
    IF depth
    THEN {"mono_left", "mono_right", "stereo"}
         \cup (IF color THEN {"align"} ELSE {})
    ELSE {}

\* _add_pc_node colorizing the point cloud whether or not a color node
\* exists
add_pc_node_AlwaysColorize(color, depth) ==
    IF depth THEN {"pointcloud", "pcd_callback", "colorize"} ELSE {}

\* Worker._add_pc_node
add_pc_node(color, depth) ==
    IF depth
    THEN {"pointcloud", "pcd_callback"}
         \cup (IF color THEN {"colorize"} ELSE {})
    ELSE {}

\* lines 91-93 of Worker._pipeline_loop
BuildPipeline(color, depth) ==
    add_camera_rgb_node(color) \cup add_depth_node(color, depth)
        \cup add_pc_node(color, depth)

\* ------------------------------------------------------ exception handler
\* except Exception (worker.py:100-106), entered with the local counter f
\* and the current flag; gives the new counter and the new flag.
ExceptCounter(f) == f + 1

\* ExceptFlag with the comparison against 0 instead of the threshold
ExceptFlag_NoThreshold(f, flag) ==
    IF ExceptCounter(f) > 0 THEN TRUE ELSE flag

ExceptFlag(f, flag) ==
    IF ExceptCounter(f) > FailureThreshold THEN TRUE ELSE flag

\* Except without the handler: the exception leaves _pipeline_loop and
\* Worker.run, which ends the worker thread.
Except_Propagates(inDrain) ==
    /\ run < MaxRun
    /\ inDrain => drainRun < MaxRun
    /\ sessions' = 0
    /\ nodes' = {}
    /\ pcW' = "crashed"
    /\ run' = run + 1
    /\ drainRun' = IF inDrain THEN drainRun + 1 ELSE 0
    /\ ticksSince' = 0
    /\ UNCHANGED <<failures, manager, pcM, reconfigCalls, stopCalls,
                   lateOpens, store>>

\* Except reached without leaving a `with` block: the session that raised
\* is never closed.
Except_Leak(inDrain) ==
    /\ run < MaxRun
    /\ inDrain => drainRun < MaxRun
    /\ failures' = ExceptCounter(failures)
    /\ needs_reconfigure' = ExceptFlag(failures, needs_reconfigure)
    /\ pcW' = "run_check"
    /\ run' = run + 1
    /\ drainRun' = IF inDrain THEN drainRun + 1 ELSE 0
    /\ ticksSince' = 0
    /\ UNCHANGED <<sessions, nodes, running, pcM, reconfigCalls, stopCalls,
                   lateOpens, store>>

\* The whole except/finally path of one _pipeline_loop call that raised;
\* inDrain tells whether the exception came from the drain loop.  The
\* `with OakCamera()` block has been left, so no session stays open.
Except(inDrain) ==
    /\ run < MaxRun
    /\ inDrain => drainRun < MaxRun
    /\ failures' = ExceptCounter(failures)
    /\ needs_reconfigure' = ExceptFlag(failures, needs_reconfigure)
    /\ sessions' = 0
    /\ nodes' = {}
    /\ pcW' = "run_check"
    /\ run' = run + 1
    /\ drainRun' = IF inDrain THEN drainRun + 1 ELSE 0
    /\ ticksSince' = 0
    /\ UNCHANGED <<running, pcM, reconfigCalls, stopCalls, lateOpens, store>>

\* ------------------------------------------------------------ Worker thread
\* Thread.start() on the worker
WorkerStart ==
    /\ pcW = "init"
    /\ pcW' = "run_check"
    /\ UNCHANGED <<manager, config, slots, failures, pcM, sessions, nodes,
                   history>>

\* RunCheck that gives up after a failed _pipeline_loop call instead of
\* looping.
RunCheck_GiveUp ==
    /\ pcW = "run_check"
    /\ IF running /\ failures = 0
       THEN /\ pcW' = "open"
            /\ failures' = 0
       ELSE /\ pcW' = "done"
            /\ UNCHANGED failures
    /\ UNCHANGED <<manager, config, slots, pcM, sessions, nodes, history>>

\* RunCheck with the failure counter kept across _pipeline_loop calls
\* (initialised once, outside the retry loop).
RunCheck_NoReset ==
    /\ pcW = "run_check"
    /\ pcW' = IF running THEN "open" ELSE "done"
    /\ UNCHANGED <<failures, manager, config, slots, pcM, sessions, nodes,
                   history>>

\* Worker.run: `while self.manager.running` (line 112); when true the call
\* of _pipeline_loop begins with `failures = 0` (line 87).
RunCheck ==
    /\ pcW = "run_check"
    /\ IF running
       THEN /\ pcW' = "open"
            /\ failures' = 0
       ELSE /\ pcW' = "done"
            /\ UNCHANGED failures
    /\ UNCHANGED <<manager, config, slots, pcM, sessions, nodes, history>>

\* `with OakCamera() as oak` (line 90): the device session opens or the
\* constructor raises.
OpenSession ==
    /\ pcW = "open"
    /\ \/ /\ sessions' = sessions + 1
          /\ pcW' = "build"
          /\ lateOpens' = IF running THEN lateOpens ELSE lateOpens + 1
          /\ UNCHANGED <<manager, failures, nodes, pcM, run, drainRun,
                         ticksSince, reconfigCalls, stopCalls, store>>
       \/ Except(FALSE)
    /\ UNCHANGED <<config, slots>>

\* lines 91-95: the three node builders and oak.start(blocking=False).
BuildAndStart ==
    /\ pcW = "build"
    /\ \/ /\ nodes' = BuildPipeline(should_get_color, should_get_depth)
          /\ pcW' = "drain_check"
          /\ run' = 0
          /\ UNCHANGED <<manager, failures, sessions, drainRun, ticksSince,
                         reconfigCalls, stopCalls, pcM, lateOpens, store>>
       \/ Except(FALSE)
    /\ UNCHANGED <<config, slots>>

\* DrainCheck as `while True`: the drain loop never looks at the stop state.
DrainCheck_NoStop ==
    /\ pcW = "drain_check"
    /\ pcW' = "color"
    /\ UNCHANGED <<manager, config, slots, failures, pcM, sessions, nodes,
                   history>>

\* `while self.manager.running` of the drain loop (line 96).  When false
\* the with block is left normally, which closes the session, and
\* _pipeline_loop returns to Worker.run.
DrainCheck ==
    /\ pcW = "drain_check"
    /\ IF running
       THEN /\ pcW' = "color"
            /\ UNCHANGED <<sessions, nodes>>
       ELSE /\ pcW' = "run_check"
            /\ sessions' = 0
            /\ nodes' = {}
    /\ UNCHANGED <<manager, config, slots, failures, pcM, history>>

\* HandleColor without the `if self.should_get_color` guard.
HandleColor_Unguarded ==
    /\ pcW = "color"
    /\ \/ \E f \in RawFrames :
              /\ color_image' = set_current_image(ColorFrame(f))
              /\ pcW' = "depth"
              /\ UNCHANGED <<manager, failures, sessions, nodes, pcM,
                             history>>
       \/ /\ pcW' = "depth"
          /\ UNCHANGED <<color_image, manager, failures, sessions, nodes,
                         pcM, history>>
       \/ /\ Except(TRUE)
          /\ UNCHANGED color_image
    /\ UNCHANGED <<config, depth_map, pcd>>

\* HandleColor that polls the queue but drops the frame it gets.
HandleColor_Drop ==
    /\ pcW = "color"
    /\ \/ /\ pcW' = "depth"
          /\ UNCHANGED <<color_image, manager, failures, sessions, nodes,
                         pcM, history>>
       \/ /\ should_get_color
          /\ Except(TRUE)
          /\ UNCHANGED color_image
    /\ UNCHANGED <<config, depth_map, pcd>>

\* Worker._handle_color_output (lines 156-163)
HandleColor ==
    /\ pcW = "color"
    /\ IF should_get_color
       THEN \/ \E f \in RawFrames :
                 /\ color_image' = set_current_image(ColorFrame(f))
                 /\ pcW' = "depth"
                 /\ UNCHANGED <<manager, failures, sessions, nodes, pcM,
                             history>>
            \/ /\ pcW' = "depth"
               /\ UNCHANGED <<color_image, manager, failures, sessions,
                              nodes, pcM, history>>
            \/ /\ Except(TRUE)
               /\ UNCHANGED color_image
       ELSE /\ pcW' = "depth"
            /\ UNCHANGED <<color_image, manager, failures, sessions, nodes,
                           pcM, history>>
    /\ UNCHANGED <<config, depth_map, pcd>>

\* Worker._handle_depth_output (lines 165-172)
HandleDepth ==
    /\ pcW = "depth"
    /\ IF should_get_depth
       THEN \/ \E f \in RawFrames :
                 /\ depth_map' = set_current_depth_map(DepthFrame(f))
                 /\ pcW' = "pcd"
                 /\ UNCHANGED <<manager, failures, sessions, nodes, pcM,
                             history>>
            \/ /\ pcW' = "pcd"
               /\ UNCHANGED <<depth_map, manager, failures, sessions, nodes,
                              pcM, history>>
            \/ /\ Except(TRUE)
               /\ UNCHANGED depth_map
       ELSE /\ pcW' = "pcd"
            /\ UNCHANGED <<depth_map, manager, failures, sessions, nodes,
                           pcM, history>>
    /\ UNCHANGED <<config, color_image, pcd>>

\* Worker._handle_pcd_output (lines 174-176): oak.poll() lets the callback
\* registered by _add_pc_node, Worker._set_current_pcd (lines 186-188),
\* run for a delivered packet.
HandlePcd ==
    /\ pcW = "pcd"
    /\ IF should_get_depth
       THEN \/ \E f \in RawFrames :
                 /\ "pcd_callback" \in nodes
                 /\ pcd' = set_current_pcd(PcdPoints(f))
                 /\ pcW' = "drain_check"
                 /\ UNCHANGED <<manager, failures, sessions, nodes, pcM,
                             history>>
            \/ /\ pcW' = "drain_check"
               /\ UNCHANGED <<pcd, manager, failures, sessions, nodes, pcM,
                              history>>
            \/ /\ Except(TRUE)
               /\ UNCHANGED pcd
       ELSE /\ pcW' = "drain_check"
            /\ UNCHANGED <<pcd, manager, failures, sessions, nodes, pcM,
                           history>>
    /\ UNCHANGED <<config, color_image, depth_map>>

\* ----------------------------------------------------- WorkerManager thread
\* `while self.running` (line 34)
ManagerCheck ==
    /\ pcM = "check"
    /\ pcM' = IF running THEN "tick" ELSE "done"
    /\ UNCHANGED <<manager, config, slots, failures, pcW, sessions, nodes,
                   history>>

\* ManagerTick without `if self.needs_reconfigure`: every tick calls the
\* reconfigure callback.
ManagerTick_NoFlagTest ==
    /\ pcM = "tick"
    /\ reconfigCalls < MaxCalls
    /\ reconfigCalls' = reconfigCalls + 1
    /\ \E outcome \in {"return", "raise"} :
         pcM' = IF outcome = "return" THEN "sleep" ELSE "crashed"
    /\ ticksSince' = IF ticksSince < MaxTicks THEN ticksSince + 1
                     ELSE ticksSince
    /\ UNCHANGED <<manager, config, slots, failures, pcW, sessions, nodes,
                   run, drainRun, stopCalls, lateOpens, store>>

\* lines 36-38: the flag test and the synchronous call of the reconfigure
\* callback, which returns or raises.  WorkerManager.run has no handler, so
\* an exception of the callback ends the manager thread.
ManagerTick ==
    /\ pcM = "tick"
    /\ IF needs_reconfigure
       THEN /\ reconfigCalls < MaxCalls
            /\ reconfigCalls' = reconfigCalls + 1
            /\ \E outcome \in {"return", "raise"} :
                 pcM' = IF outcome = "return" THEN "sleep" ELSE "crashed"
       ELSE /\ pcM' = "sleep"
            /\ UNCHANGED reconfigCalls
    /\ ticksSince' = IF ticksSince < MaxTicks THEN ticksSince + 1
                     ELSE ticksSince
    /\ UNCHANGED <<manager, config, slots, failures, pcW, sessions, nodes,
                   run, drainRun, stopCalls, lateOpens, store>>

\* time.sleep(5) (line 39)
ManagerSleep ==
    /\ pcM = "sleep"
    /\ pcM' = "check"
    /\ UNCHANGED <<manager, config, slots, failures, pcW, sessions, nodes,
                   history>>

\* ------------------------------------------------------------------- stop
\* Worker.stop (lines 117-119) calling WorkerManager.stop (lines 41-43)
\* WorkerManager.stop toggling the field instead of clearing it
StopRunning_Toggle(r) == ~r

StopRunning(r) == FALSE

Stop ==
    /\ stopCalls < MaxStops
    /\ running' = StopRunning(running)
    /\ stopCalls' = stopCalls + 1
    /\ UNCHANGED <<needs_reconfigure, config, slots, failures, pcW, pcM,
                   sessions, nodes, run, drainRun, ticksSince,
                   reconfigCalls, lateOpens, store>>

\* ------------------------------------------------------------- frame slots
\* The three setters and the three getters called in any order: the drain
\* loop as the producer of frames and reader threads as consumers.  A
\* setter is called only for an enabled capability (lines 157, 166, 151).
notStore == <<manager, config, failures, pcW, pcM, sessions, nodes, run,
              drainRun, ticksSince, reconfigCalls, stopCalls, lateOpens>>

SetOps == {"set_color", "set_depth", "set_pcd"}
GetOps == {"get_color", "get_depth", "get_pcd"}

Record(slot, arr, op) ==
    /\ written' = [written EXCEPT ![slot] = @ \cup {arr}]
    /\ lastSet' = [lastSet EXCEPT ![slot] = arr]
    /\ lastOp' = op
    /\ UNCHANGED got

SetColor ==
    /\ should_get_color
    /\ \E f \in RawFrames :
         /\ color_image' = set_current_image(ColorFrame(f))
         /\ Record("color", ColorFrame(f), "set_color")
    /\ UNCHANGED <<depth_map, pcd, notStore>>

SetDepth ==
    /\ should_get_depth
    /\ \E f \in RawFrames :
         /\ depth_map' = set_current_depth_map(DepthFrame(f))
         /\ Record("depth", DepthFrame(f), "set_depth")
    /\ UNCHANGED <<color_image, pcd, notStore>>

SetPcd ==
    /\ should_get_depth
    /\ \E f \in RawFrames :
         /\ pcd' = set_current_pcd(PcdPoints(f))
         /\ Record("pcd", PcdPoints(f), "set_pcd")
    /\ UNCHANGED <<color_image, depth_map, notStore>>

GetColor ==
    /\ got' = get_color_image
    /\ lastOp' = "get_color"
    /\ UNCHANGED <<slots, written, lastSet, notStore>>

GetDepth ==
    /\ got' = get_depth_map
    /\ lastOp' = "get_depth"
    /\ UNCHANGED <<slots, written, lastSet, notStore>>

GetPcd ==
    /\ got' = get_pcd
    /\ lastOp' = "get_pcd"
    /\ UNCHANGED <<slots, written, lastSet, notStore>>

StoreNext ==
    \/ SetColor
    \/ SetDepth
    \/ SetPcd
    \/ GetColor
    \/ GetDepth
    \/ GetPcd

StoreSpec == Init /\ [][StoreNext]_vars

\* the slot a getter call reads
SlotOf(op) ==
    IF op = "get_color" THEN "color"
    ELSE IF op = "get_depth" THEN "depth" ELSE "pcd"

\* ------------------------------------------------------------------- Next
Next ==
    \/ WorkerStart
    \/ RunCheck
    \/ OpenSession
    \/ BuildAndStart
    \/ DrainCheck
    \/ HandleColor
    \/ HandleDepth
    \/ HandlePcd
    \/ ManagerCheck
    \/ ManagerTick
    \/ ManagerSleep
    \/ Stop

Spec == Init /\ [][Next]_vars

WorkerNext ==
    \/ WorkerStart
    \/ RunCheck
    \/ OpenSession
    \/ BuildAndStart
    \/ DrainCheck
    \/ HandleColor
    \/ HandleDepth
    \/ HandlePcd

ManagerNext ==
    \/ ManagerCheck
    \/ ManagerTick
    \/ ManagerSleep

TypeOK ==
    /\ running \in BOOLEAN
    /\ needs_reconfigure \in BOOLEAN
    /\ color_image \in SlotValues
    /\ depth_map \in SlotValues
    /\ pcd \in SlotValues
    /\ failures \in 0..(MaxRun + 1)
    /\ pcW \in {"init", "run_check", "open", "build", "drain_check",
                "color", "depth", "pcd", "done", "crashed"}
    /\ pcM \in {"check", "tick", "sleep", "done", "crashed"}
    /\ sessions \in 0..2
    /\ run \in 0..MaxRun
    /\ drainRun \in 0..MaxRun

\* Both threads under a fair scheduler: a thread that can take a step
\* eventually takes one.  start() and stop() are external calls and are not
\* forced.
ThreadNext ==
    \/ RunCheck
    \/ OpenSession
    \/ BuildAndStart
    \/ DrainCheck
    \/ HandleColor
    \/ HandleDepth
    \/ HandlePcd

FairSpec == Spec /\ WF_vars(ThreadNext) /\ WF_vars(ManagerNext)

InSession == pcW \in {"drain_check", "color", "depth", "pcd"}
WorkerLoopRunning == pcW \in {"run_check", "open", "build", "drain_check",
                              "color", "depth", "pcd"}
ManagerLoopRunning == pcM \in {"check", "tick", "sleep"}
\* a step in which the worker calls OakCamera()
OpenAttempt == pcW = "open" /\ pcW' # "open"

\* ---------------------------------------------------------------- claims

\* C1 (as stated): once 4 consecutive _pipeline_loop calls have failed with
\* no session opened and started in between, and stop was not requested,
\* needs_reconfigure is true.
C1_Orig ==
    (run = FailureThreshold + 1 /\ running) => needs_reconfigure

\* C2: the flag is raised only by a failure that makes the run of
\* consecutive failures longer than 3, and every step that opens a device
\* session happens with the failure counter at 0.
C2_NoEscalationUpTo3 ==
    [][ /\ (~needs_reconfigure /\ needs_reconfigure')
             => run' > FailureThreshold
        /\ (sessions' > sessions) => (failures = 0 /\ failures' = 0)
      ]_vars

C2_Witness ==
    /\ run = FailureThreshold
    /\ ~needs_reconfigure
    /\ pcW = "build"
    /\ sessions = 1
    /\ failures = 0

C4_Orig ==
    (drainRun = 4 /\ InSession /\ running /\ ticksSince >= 1)
        => (reconfigCalls = 1 /\ failures = 0)

\* C5: once stop() has cleared the running field, the worker loop and the
\* watchdog loop both end, and each ends at its next check of the field: the
\* outer worker check goes to the end of run(), the drain check leaves the
\* pipeline loop, the watchdog check ends the watchdog.
C5_StopTerminates ==
    /\ [][ /\ (~running /\ pcW = "run_check" /\ pcW' # pcW) => pcW' = "done"
           /\ (~running /\ pcW = "drain_check" /\ pcW' # pcW)
                 => pcW' = "run_check"
           /\ (~running /\ pcM = "check" /\ pcM' # pcM) => pcM' = "done"
         ]_vars
    /\ (~running) ~> (~WorkerLoopRunning /\ ~ManagerLoopRunning)

C5_Witness ==
    /\ ~running
    /\ pcW = "done"
    /\ pcM = "done"
    /\ run >= 1
    /\ depth_map # Empty

\* C6: a second stop() changes neither the stop state, nor the reconfigure
\* flag, nor any frame slot, and after any stop() the stop state is never
\* Running again.
C6_StopIdempotent ==
    [][ /\ (stopCalls >= 1 /\ stopCalls' = stopCalls + 1)
             => (running' = running
                 /\ needs_reconfigure' = needs_reconfigure
                 /\ slots' = slots)
        /\ (stopCalls' >= 1) => ~running'
      ]_vars

C6_Witness ==
    /\ stopCalls = 2
    /\ ~running
    /\ color_image # Empty

\* C7: while stop has not been requested a started worker thread is alive,
\* whatever number of pipeline failures happened, and each getter returns a
\* value (empty or a stored frame).
C7_ErrorsContained ==
    /\ (running /\ pcW # "init") => WorkerLoopRunning
    /\ get_color_image \in SlotValues
    /\ get_depth_map \in SlotValues
    /\ get_pcd \in SlotValues

C7_Witness ==
    /\ running
    /\ run = FailureThreshold + 1
    /\ color_image # Empty
    /\ pcW = "open"

\* C10: the color slot is empty whenever capture of color is disabled, the
\* depth-map and point-cloud slots are empty whenever capture of depth is
\* disabled.
C10_SlotsFollowFlags ==
    /\ ~should_get_color => color_image = Empty
    /\ ~should_get_depth => (depth_map = Empty /\ pcd = Empty)

C10_Witness ==
    /\ ~should_get_color
    /\ should_get_depth
    /\ depth_map # Empty
    /\ pcd # Empty
    /\ InSession

\* A poll of the color queue that finds a frame (tryGet returns a packet,
\* line 159-160).
ColorArrives == HandleColor /\ color_image' # Empty

\* The fair scheduler together with a device that keeps delivering color
\* frames: a worker that polls the color queue again and again eventually
\* finds a frame there.
DeliverySpec == FairSpec /\ SF_vars(ColorArrives)

\* C11: whatever the interleaving of setter and getter calls, the value a
\* getter returned is the initial empty value or one of the complete frames
\* passed to an earlier call of the setter of the same slot.
C11_NoTornRead ==
    lastOp \in GetOps => got \in ({Empty} \cup written[SlotOf(lastOp)])

C11_Witness ==
    /\ lastOp = "get_color"
    /\ got # Empty
    /\ Cardinality(written["color"]) >= 2
    /\ written["depth"] # {}

\* C12: with color enabled and depth disabled, if from some point on the
\* session stays open and stop is not requested, and the device delivers
\* color frames, get_color_image() eventually returns a non-empty frame.
C12_ColorEventually ==
    (<>[](InSession /\ running /\ should_get_color /\ ~should_get_depth))
        => <>(get_color_image # Empty)

C12_Witness ==
    /\ should_get_color
    /\ ~should_get_depth
    /\ running
    /\ InSession
    /\ get_color_image # Empty
    /\ depth_map = Empty

\* C13: a step that invokes the reconfigure callback is the flag test of a
\* watchdog tick and finds the flag true, and a tick starts only from a
\* check that found the stop state still Running.
C13_CallbackOnlyWhenFlagged ==
    [][ /\ (reconfigCalls' # reconfigCalls)
             => (pcM = "tick" /\ needs_reconfigure)
        /\ (pcM # "tick" /\ pcM' = "tick") => running
      ]_vars

C13_Witness ==
    /\ ticksSince >= 1
    /\ ~needs_reconfigure
    /\ reconfigCalls = 0
    /\ stopCalls >= 1
    /\ pcM = "done"

\* C14: a worker back in Worker.run after a failure that did not exceed the
\* threshold reaches the next OakCamera() call unless stop is requested,
\* and a worker at that call makes it.
C14_RetryAfterFailure ==
    /\ (pcW = "run_check" /\ failures >= 1 /\ failures <= FailureThreshold)
          ~> (~running \/ pcW = "open")
    /\ (pcW = "open") ~> (pcW # "open")

C14_Witness ==
    /\ running
    /\ run >= 2
    /\ ~needs_reconfigure
    /\ pcW = "build"
    /\ sessions = 1

\* C15: the pipeline of an open, started session has a color node iff
\* color is enabled, a stereo-depth node iff depth is enabled, depth
\* aligned to color iff both are, a point-cloud node with its callback iff
\* depth is enabled, and a colorized point cloud iff both are.
C15_PipelineMatchesFlags ==
    InSession =>
        /\ ("color" \in nodes) <=> should_get_color
        /\ ("stereo" \in nodes) <=> should_get_depth
        /\ ("align" \in nodes) <=> (should_get_color /\ should_get_depth)
        /\ ("pointcloud" \in nodes) <=> should_get_depth
        /\ ("pcd_callback" \in nodes) <=> should_get_depth
        /\ ("colorize" \in nodes) <=> (should_get_color /\ should_get_depth)

C15_Witness ==
    /\ InSession
    /\ ~should_get_color
    /\ should_get_depth
    /\ "pointcloud" \in nodes
    /\ "colorize" \notin nodes

\* C16: a getter returns the argument of the most recent setter call on its
\* slot (Empty when there was none), a setter call leaves the two other
\* slots as they were, and a getter call changes no slot.
C16_LatestValue ==
    /\ [](lastOp \in GetOps => got = lastSet[SlotOf(lastOp)])
    /\ [][ /\ lastOp' = "set_color"
                 => (depth_map' = depth_map /\ pcd' = pcd)
           /\ lastOp' = "set_depth"
                 => (color_image' = color_image /\ pcd' = pcd)
           /\ lastOp' = "set_pcd"
                 => (color_image' = color_image /\ depth_map' = depth_map)
           /\ lastOp' \in GetOps => slots' = slots
         ]_vars

C16_Witness ==
    /\ lastOp = "get_color"
    /\ got # Empty
    /\ Cardinality(written["color"]) >= 2
    /\ depth_map # Empty
    /\ pcd # Empty
    /\ got = lastSet["color"]

\* C17: the failure counter never exceeds 1, the reconfigure flag is never
\* set and the reconfigure callback is never invoked, however many
\* consecutive failures happen.
C17_CounterAtMostOne ==
    /\ failures <= 1
    /\ ~needs_reconfigure
    /\ reconfigCalls = 0

C17_Witness ==
    /\ run = FailureThreshold + 2
    /\ failures = 1
    /\ ticksSince >= 1
    /\ running

\* C18: at most one device session is open, and none is open while the
\* worker is outside the `with OakCamera()` block: before the first call,
\* between two _pipeline_loop calls, and after the thread has ended.
C18_OneSession ==
    /\ sessions <= 1
    /\ pcW \in {"init", "run_check", "open", "done", "crashed"}
          => sessions = 0
    /\ (pcW = "build" \/ InSession) => sessions = 1

C18_Witness ==
    /\ pcW = "done"
    /\ sessions = 0
    /\ drainRun >= 1
    /\ color_image # Empty

\* C19: at most one session is opened while the stop state is
\* StopRequested, and once such a session has been opened the worker runs
\* no drain handler and no frame slot changes.
C19_NoDrainAfterStop ==
    /\ [](lateOpens <= 1)
    /\ [](lateOpens >= 1 => pcW \notin {"color", "depth", "pcd"})
    /\ [][lateOpens >= 1 => slots' = slots]_vars

C19_Witness ==
    /\ lateOpens = 1
    /\ pcW = "done"
    /\ sessions = 0
    /\ color_image # Empty

====
